---- MODULE Spec2Model ----
(***************************************************************************)
(* The eye-tracking session lifecycle of the PictureBook component         *)
(* (src/frontend/src/components/ErrorMessage.js, lines 58-507): the        *)
(* connect -> set-image -> start sequence of handleEnterEyeTrackingMode,   *)
(* the setInterval gaze poller, handleExitFullscreen, the Escape and       *)
(* fullscreenchange listeners and the unmount cleanup.                     *)
(*                                                                         *)
(* JavaScript runs one task at a time, so every action below is one        *)
(* uninterrupted piece of a handler: from its entry (or from the           *)
(* resumption of an await) up to its next await or its end.  React state   *)
(* is the committed state; a state setter called after the component       *)
(* unmounted changes nothing, a ref or a browser call still acts.          *)
(***************************************************************************)
EXTENDS Integers, FiniteSets, Sequences, TLC

\* ---------------------------------------------------------------- bounds
MaxAttempts  == 2   \* clicks on the eye-tracking button
MaxExits     == 2   \* handleExitFullscreen calls suspended at the same time
MaxTicks     == 2   \* firings of interval callbacks
MaxPage      == 1   \* highest page the user turns to

\* ------------------------------------------------------ program constants
totalPages == 5     \* allImages.length

NoTimer  == 0       \* gazeIntervalRef.current === null
NoSample == 0       \* gazeData === null
NoImage  == 0       \* no image context sent / bound

Attempts == 1..MaxAttempts
Ticks    == 1..MaxTicks
Pages    == 0..(totalPages - 1)

HttpReplies == {"ok", "fail", "throw"}   \* success:true, success:false, fetch/json throws
FsReplies   == {"granted", "rejected"}   \* requestFullscreen() resolves / rejects

VARIABLES
  mounted,              \* the PictureBook instance is mounted
  currentPage,          \* useState(0)
  isFullscreenMode,     \* useState(false)
  gazeData,             \* useState(null): tick whose sample is shown, or NoSample
  isEyeTrackingActive,  \* useState(false)
  gazeIntervalRef,      \* useRef(null): timer handle held, or NoTimer
  fullscreenElement,    \* document.fullscreenElement is set
  exitFsPending,        \* document.exitFullscreen() called, not yet completed
  timers,               \* interval timers alive in the browser
  tickCount,            \* interval callbacks fired so far
  pending,              \* gaze-data requests in flight (by tick)
  attempt,              \* calls of handleEnterEyeTrackingMode
  nAttempts,            \* number of those calls so far
  sent,                 \* lifecycle requests issued: <<attempt, kind>>
  stopInFlight,         \* handleExitFullscreen calls awaiting their stop request
  deviceTracking,       \* device: started and not stopped
  deviceImage           \* device: image context bound

vars == <<mounted, currentPage, isFullscreenMode, gazeData, isEyeTrackingActive,
          gazeIntervalRef, fullscreenElement, exitFsPending, timers, tickCount,
          pending, attempt, nAttempts, sent, stopInFlight,
          deviceTracking, deviceImage>>

reactVars   == <<currentPage, isFullscreenMode, gazeData, isEyeTrackingActive>>
pollerVars  == <<gazeIntervalRef, timers>>
browserVars == <<fullscreenElement, exitFsPending>>
deviceVars  == <<deviceTracking, deviceImage>>

\* One call of handleEnterEyeTrackingMode.  pc is where it is suspended; page
\* is the page its closure holds, image the file it sent; connect, setImage,
\* start and fullscreen record what each awaited call answered.  What the
\* call did when it ended: alerted (alert() shown), marked (it set
\* isEyeTrackingActive, and the setter took effect), polled (it started a
\* timer and holds its handle), shown (isFullscreenMode when it ended),
\* live (the component was mounted when it ended).
Unused == [pc |-> "unused", page |-> 0, image |-> NoImage,
           connect |-> "none", setImage |-> "none", start |-> "none",
           fullscreen |-> "none", alerted |-> FALSE, polled |-> FALSE,
           marked |-> FALSE, shown |-> FALSE, live |-> FALSE]

InFlightPcs == {"connect", "setImage", "start", "reqFS"}

Init ==
  /\ mounted = TRUE
  /\ currentPage = 0
  /\ isFullscreenMode = FALSE
  /\ gazeData = NoSample
  /\ isEyeTrackingActive = FALSE
  /\ gazeIntervalRef = NoTimer
  /\ fullscreenElement = FALSE
  /\ exitFsPending = FALSE
  /\ timers = {}
  /\ tickCount = 0
  /\ pending = {}
  /\ attempt = [a \in Attempts |-> Unused]
  /\ nAttempts = 0
  /\ sent = {}
  /\ stopInFlight = 0
  /\ deviceTracking = FALSE
  /\ deviceImage = NoImage

\* ------------------------------------------------------------ pure parts

\* getCurrentPageImage().split('/').pop(): allImages[p] is
\* '.../pictures/<p+1>.jpg', so the file of page p is named by p + 1.
ImageFile(p) == p + 1

\* A state setter: the new value if the component is mounted, else no change.
SetState(old, new) == IF mounted THEN new ELSE old

\* Faulty variant: the test of connectResult.success is left out.
ConnectSucceeded_Unchecked(r) == r # "throw"

\* if (!connectResult.success) throw ...   (also: fetch or json() threw)
ConnectSucceeded(r) == r = "ok"

\* Faulty variant: the test of startResult.success is left out.
StartSucceeded_Unchecked(r) == r # "throw"

\* if (!startResult.success) throw ...
StartSucceeded(r) == r = "ok"

\* Faulty variant: setImageResult.success is tested like the other replies.
SetImageSettled_Checked(r) == r = "ok"

\* Nothing tests setImageResult: only a throw of fetch/json() leaves the try.
SetImageSettled(r) == r \in {"ok", "fail"}


\* Faulty variant: the sample is applied without testing result.success.
GazeApplies_Unchecked(r) == r # "throw"

\* if (result.success && result.current_position)
GazeApplies(r) == r = "ok"

\* Faulty variant: the statements after the stop request are inside the try,
\* so a throw skips them.
ExitProceeds_InsideTry(r) == r # "throw"

\* handleExitFullscreen: the statements after the try/catch (lines 246-250)
\* run whatever the stop request answered; the catch only logs.
ExitProceeds(r) == r \in {"ok", "fail", "throw"}

\* ------------------------------------------------------------ the poller

\* Faulty variant: the timer is made but its handle is not stored.
StartGazeDataPolling_HandleLost(t) ==
  /\ timers' = timers \cup {t}
  /\ UNCHANGED gazeIntervalRef

\* startGazeDataPolling(): gazeIntervalRef.current = setInterval(...).
\* setInterval always makes a new timer; t is its handle.
StartGazeDataPolling(t) ==
  /\ timers' = timers \cup {t}
  /\ gazeIntervalRef' = t

\* stopGazeDataPolling(): clear the timer whose handle is held, drop the sample.
StopGazeDataPolling ==
  /\ IF gazeIntervalRef # NoTimer
       THEN /\ timers' = timers \ {gazeIntervalRef}
            /\ gazeIntervalRef' = NoTimer
       ELSE UNCHANGED pollerVars
  /\ gazeData' = SetState(gazeData, NoSample)

\* The interval callback of timer t fires: it issues a gaze-data request and
\* suspends.  Nothing looks at requests still in flight.
Tick(t) ==
  /\ t \in timers
  /\ tickCount < MaxTicks
  /\ tickCount' = tickCount + 1
  /\ pending' = pending \cup {tickCount + 1}
  /\ UNCHANGED <<mounted, reactVars, pollerVars, browserVars, attempt, nAttempts,
                 sent, stopInFlight, deviceVars>>

\* The request of tick k settles with r: the callback resumes and applies
\* the sample if there is one; a throw is caught and logged.
GazeReply(k, r) ==
  /\ k \in pending
  /\ pending' = pending \ {k}
  /\ gazeData' = IF GazeApplies(r) THEN SetState(gazeData, k) ELSE gazeData
  /\ UNCHANGED <<mounted, currentPage, isFullscreenMode, isEyeTrackingActive,
                 pollerVars, browserVars, tickCount, attempt, nAttempts, sent,
                 stopInFlight, deviceVars>>

\* ------------------------------------------- handleEnterEyeTrackingMode

\* Faulty variant: the catch block logs the error but shows no alert.
EnterFailed_Silent(a, rec) ==
  /\ isFullscreenMode' = SetState(isFullscreenMode, TRUE)
  /\ attempt' = [attempt EXCEPT ![a] =
                   [rec EXCEPT !.pc = "done",
                               !.shown = isFullscreenMode', !.live = mounted]]

\* Faulty variant: the catch block alerts but does not fall back to the
\* full-screen view.
EnterFailed_NoFallback(a, rec) ==
  /\ UNCHANGED isFullscreenMode
  /\ attempt' = [attempt EXCEPT ![a] =
                   [rec EXCEPT !.pc = "done", !.alerted = TRUE,
                               !.shown = isFullscreenMode', !.live = mounted]]

\* The catch block: alert(...), setIsFullscreenMode(true).  rec is the
\* attempt's record with the reply that made it throw.
EnterFailed(a, rec) ==
  /\ isFullscreenMode' = SetState(isFullscreenMode, TRUE)
  /\ attempt' = [attempt EXCEPT ![a] =
                   [rec EXCEPT !.pc = "done", !.alerted = TRUE,
                               !.shown = isFullscreenMode', !.live = mounted]]

\* The end of the try block: setIsFullscreenMode(true),
\* setIsEyeTrackingActive(true), startGazeDataPolling().
Activate(a, rec) ==
  /\ isFullscreenMode' = SetState(isFullscreenMode, TRUE)
  /\ isEyeTrackingActive' = SetState(isEyeTrackingActive, TRUE)
  /\ StartGazeDataPolling(a)
  /\ attempt' = [attempt EXCEPT ![a] =
                   [rec EXCEPT !.pc = "done",
                               !.marked = (mounted /\ isEyeTrackingActive'),
                               !.polled = (gazeIntervalRef' = a /\ a \in timers'),
                               !.shown = isFullscreenMode', !.live = mounted]]

\* A click on the eye-tracking button (rendered in the normal view only;
\* nothing disables it while an earlier call is suspended): the handler
\* runs up to the connect request.  Its closure holds the page of the click.
EnterEyeTrackingMode ==
  /\ mounted
  /\ ~isFullscreenMode
  /\ nAttempts < MaxAttempts
  /\ nAttempts' = nAttempts + 1
  /\ attempt' = [attempt EXCEPT ![nAttempts + 1] =
                   [Unused EXCEPT !.pc = "connect", !.page = currentPage]]
  /\ sent' = sent \cup {<<nAttempts + 1, "connect">>}
  /\ UNCHANGED <<mounted, reactVars, pollerVars, browserVars, tickCount, pending,
                 stopInFlight, deviceVars>>

\* The connect request of attempt a settles with r.
ConnectReply(a, r) ==
  /\ attempt[a].pc = "connect"
  /\ IF ConnectSucceeded(r)
       THEN /\ attempt' = [attempt EXCEPT ![a].pc = "setImage", ![a].connect = r,
                                          ![a].image = ImageFile(attempt[a].page)]
            /\ sent' = sent \cup {<<a, "set-image">>}
            /\ UNCHANGED isFullscreenMode
       ELSE /\ EnterFailed(a, [attempt[a] EXCEPT !.connect = r])
            /\ UNCHANGED sent
  /\ UNCHANGED <<mounted, currentPage, gazeData, isEyeTrackingActive, pollerVars,
                 browserVars, tickCount, pending, nAttempts, stopInFlight, deviceVars>>

\* The set-image request of attempt a settles with r.
SetImageReply(a, r) ==
  /\ attempt[a].pc = "setImage"
  /\ deviceImage' = IF r = "ok" THEN attempt[a].image ELSE deviceImage
  /\ IF SetImageSettled(r)
       THEN /\ attempt' = [attempt EXCEPT ![a].pc = "start", ![a].setImage = r]
            /\ sent' = sent \cup {<<a, "start">>}
            /\ UNCHANGED isFullscreenMode
       ELSE /\ EnterFailed(a, [attempt[a] EXCEPT !.setImage = r])
            /\ UNCHANGED sent
  /\ UNCHANGED <<mounted, currentPage, gazeData, isEyeTrackingActive, pollerVars,
                 browserVars, tickCount, pending, nAttempts, stopInFlight, deviceTracking>>

\* The start request of attempt a settles with r.  api: the browser has
\* document.documentElement.requestFullscreen; without it the handler goes
\* straight on to the end of the try block.
StartReply(a, r, api) ==
  /\ attempt[a].pc = "start"
  /\ deviceTracking' = IF r = "ok" THEN TRUE ELSE deviceTracking
  /\ IF StartSucceeded(r)
       THEN IF api
              THEN /\ attempt' = [attempt EXCEPT ![a].pc = "reqFS", ![a].start = r]
                   /\ UNCHANGED <<isFullscreenMode, isEyeTrackingActive, pollerVars>>
              ELSE Activate(a, [attempt[a] EXCEPT !.start = r, !.fullscreen = "absent"])
       ELSE /\ EnterFailed(a, [attempt[a] EXCEPT !.start = r])
            /\ UNCHANGED <<isEyeTrackingActive, pollerVars>>
  /\ UNCHANGED <<mounted, currentPage, gazeData, browserVars, tickCount, pending,
                 nAttempts, sent, stopInFlight, deviceImage>>

\* Faulty variant: a rejection of requestFullscreen() is swallowed and the
\* handler goes on to the end of the try block.
FullscreenReply_RejectionIgnored(a, r) ==
  /\ attempt[a].pc = "reqFS"
  /\ fullscreenElement' = (fullscreenElement \/ r = "granted")
  /\ Activate(a, [attempt[a] EXCEPT !.fullscreen = r])
  /\ UNCHANGED <<mounted, currentPage, gazeData, exitFsPending, tickCount, pending,
                 nAttempts, sent, stopInFlight, deviceVars>>

\* requestFullscreen() of attempt a settles with r.
FullscreenReply(a, r) ==
  /\ attempt[a].pc = "reqFS"
  /\ IF r = "granted"
       THEN /\ fullscreenElement' = TRUE
            /\ Activate(a, [attempt[a] EXCEPT !.fullscreen = r])
       ELSE /\ EnterFailed(a, [attempt[a] EXCEPT !.fullscreen = r])
            /\ UNCHANGED <<fullscreenElement, isEyeTrackingActive, pollerVars>>
  /\ UNCHANGED <<mounted, currentPage, gazeData, exitFsPending, tickCount, pending,
                 nAttempts, sent, stopInFlight, deviceVars>>

\* ------------------------------------------------- handleExitFullscreen

\* handleExitFullscreen() up to its await: stopGazeDataPolling(),
\* setIsEyeTrackingActive(false), the stop request.  Nothing tests whether
\* an earlier call is still waiting for its stop request.
HandleExitFullscreen ==
  /\ StopGazeDataPolling
  /\ isEyeTrackingActive' = SetState(isEyeTrackingActive, FALSE)
  /\ stopInFlight' = stopInFlight + 1

\* handleFullscreenChange, run on a fullscreenchange event after which
\* document.fullscreenElement is fsEl.  The listener is attached while the
\* component is mounted.
HandleFullscreenChange(fsEl) ==
  isFullscreenMode' = IF mounted /\ ~fsEl /\ isFullscreenMode
                        THEN FALSE
                        ELSE isFullscreenMode

\* Faulty variant: handleKeyDown does not test isFullscreenMode.
EscapeKey_Unguarded ==
  /\ mounted
  /\ stopInFlight < MaxExits
  /\ HandleExitFullscreen
  /\ UNCHANGED <<mounted, currentPage, isFullscreenMode, browserVars,
                 tickCount, pending, attempt, nAttempts, sent, deviceVars>>

\* handleKeyDown on an Escape key press.
EscapeKey ==
  /\ mounted
  /\ stopInFlight < MaxExits
  /\ IF isFullscreenMode
       THEN /\ HandleExitFullscreen
            /\ UNCHANGED <<mounted, currentPage, isFullscreenMode, browserVars,
                           tickCount, pending, attempt, nAttempts, sent,
                           deviceVars>>
       ELSE UNCHANGED vars

\* The stop request of one handleExitFullscreen call settles with r (a
\* throw is caught and logged): setIsFullscreenMode(false), and
\* document.exitFullscreen() if the document is in full-screen.
StopReply(r) ==
  /\ stopInFlight > 0
  /\ stopInFlight' = stopInFlight - 1
  /\ deviceTracking' = IF r = "ok" THEN FALSE ELSE deviceTracking
  /\ isFullscreenMode' = IF ExitProceeds(r)
                          THEN SetState(isFullscreenMode, FALSE)
                          ELSE isFullscreenMode
  /\ exitFsPending' = (exitFsPending \/ (ExitProceeds(r) /\ fullscreenElement))
  /\ UNCHANGED <<mounted, currentPage, gazeData, isEyeTrackingActive, pollerVars,
                 fullscreenElement, tickCount, pending, attempt, nAttempts, sent, deviceImage>>

\* The browser completes document.exitFullscreen(): if the document is still
\* in full-screen it leaves it and fires fullscreenchange; otherwise the
\* promise rejects and .catch(console.error) logs it.
ExitFullscreenDone ==
  /\ exitFsPending
  /\ exitFsPending' = FALSE
  /\ IF fullscreenElement
       THEN /\ fullscreenElement' = FALSE
            /\ HandleFullscreenChange(FALSE)
       ELSE UNCHANGED <<fullscreenElement, isFullscreenMode>>
  /\ UNCHANGED <<mounted, currentPage, gazeData, isEyeTrackingActive, pollerVars,
                 tickCount, pending, attempt, nAttempts, sent, stopInFlight, deviceVars>>

\* The platform leaves full-screen on its own (browser Esc handling, F11, an
\* OS gesture) and fires fullscreenchange.
PlatformFullscreenExit ==
  /\ fullscreenElement
  /\ fullscreenElement' = FALSE
  /\ HandleFullscreenChange(FALSE)
  /\ UNCHANGED <<mounted, currentPage, gazeData, isEyeTrackingActive, pollerVars,
                 exitFsPending, tickCount, pending, attempt, nAttempts, sent,
                 stopInFlight, deviceVars>>

\* ------------------------------------------------------ paging, unmount

\* The Next / Previous buttons exist in the normal view only.
CanPage == mounted /\ ~isFullscreenMode

\* handleNextPage
NextPage ==
  /\ CanPage
  /\ currentPage < totalPages - 1
  /\ currentPage < MaxPage
  /\ currentPage' = currentPage + 1
  /\ UNCHANGED <<mounted, isFullscreenMode, gazeData, isEyeTrackingActive,
                 pollerVars, browserVars, tickCount, pending, attempt, nAttempts,
                 sent, stopInFlight, deviceVars>>

\* handlePrevPage
PrevPage ==
  /\ CanPage
  /\ currentPage > 0
  /\ currentPage' = currentPage - 1
  /\ UNCHANGED <<mounted, isFullscreenMode, gazeData, isEyeTrackingActive,
                 pollerVars, browserVars, tickCount, pending, attempt, nAttempts,
                 sent, stopInFlight, deviceVars>>

\* The Back button (normal view only) unmounts the component: the cleanup
\* of the second effect runs stopGazeDataPolling(), the cleanup of the first
\* removes the listeners.  Suspended handlers are not cancelled.
Unmount ==
  /\ mounted
  /\ ~isFullscreenMode
  /\ mounted' = FALSE
  /\ StopGazeDataPolling
  /\ UNCHANGED <<currentPage, isFullscreenMode, isEyeTrackingActive, browserVars,
                 tickCount, pending, attempt, nAttempts, sent, stopInFlight, deviceVars>>

\* ------------------------------------------------------- specification

Next ==
  \/ EnterEyeTrackingMode
  \/ \E a \in Attempts, r \in HttpReplies : ConnectReply(a, r)
  \/ \E a \in Attempts, r \in HttpReplies : SetImageReply(a, r)
  \/ \E a \in Attempts, r \in HttpReplies, api \in BOOLEAN : StartReply(a, r, api)
  \/ \E a \in Attempts, r \in FsReplies : FullscreenReply(a, r)
  \/ \E t \in Attempts : Tick(t)
  \/ \E k \in Ticks, r \in HttpReplies : GazeReply(k, r)
  \/ EscapeKey
  \/ \E r \in HttpReplies : StopReply(r)
  \/ ExitFullscreenDone
  \/ PlatformFullscreenExit
  \/ NextPage
  \/ PrevPage
  \/ Unmount

Spec == Init /\ [][Next]_vars

\* --------------------------------------------------------------- typing

TypeOK ==
  /\ mounted \in BOOLEAN
  /\ currentPage \in Pages
  /\ isFullscreenMode \in BOOLEAN
  /\ gazeData \in {NoSample} \cup Ticks
  /\ isEyeTrackingActive \in BOOLEAN
  /\ gazeIntervalRef \in {NoTimer} \cup Attempts
  /\ fullscreenElement \in BOOLEAN
  /\ exitFsPending \in BOOLEAN
  /\ timers \subseteq Attempts
  /\ tickCount \in 0..MaxTicks
  /\ pending \subseteq Ticks
  /\ nAttempts \in 0..MaxAttempts
  /\ \A a \in Attempts : attempt[a].pc \in InFlightPcs \cup {"unused", "done"}
  /\ sent \subseteq Attempts \X {"connect", "set-image", "start"}
  /\ stopInFlight \in 0..MaxExits
  /\ deviceTracking \in BOOLEAN
  /\ deviceImage \in {NoImage} \cup {ImageFile(p) : p \in Pages}

\* ------------------------------------------------------ derived state

\* The coordinator state of the design, read off the component: a stop
\* request in flight is Stopping; full-screen view with tracking marked
\* active is Tracking; a suspended handleEnterEyeTrackingMode is Connecting,
\* Connected or ContextBound by the request it awaits; full-screen view
\* without tracking is Failed; otherwise Idle.
SessionState ==
  IF stopInFlight > 0 THEN "Stopping"
  ELSE IF isFullscreenMode /\ isEyeTrackingActive THEN "Tracking"
  ELSE IF \E a \in Attempts : attempt[a].pc = "connect" THEN "Connecting"
  ELSE IF \E a \in Attempts : attempt[a].pc = "setImage" THEN "Connected"
  ELSE IF \E a \in Attempts : attempt[a].pc \in {"start", "reqFS"} THEN "ContextBound"
  ELSE IF isFullscreenMode THEN "Failed"
  ELSE "Idle"

\* The calls of handleEnterEyeTrackingMode that are suspended.
InFlight == {a \in Attempts : attempt[a].pc \in InFlightPcs}

\* Idle in the component's terms: not tracking, no poller, normal view.
IsIdle ==
  /\ ~isFullscreenMode
  /\ ~isEyeTrackingActive
  /\ gazeIntervalRef = NoTimer
  /\ timers = {}

\* ================================================================ claims

\* C1: whatever teardown triggers arrive (Escape, repeated Escape, the
\* platform's fullscreenchange), also while a stop request is in flight, the
\* stop sequence runs once - never two stop requests in flight - and once
\* the view is back to normal with nothing in flight the state is Idle.
C1_TeardownOnceThenIdle ==
  /\ stopInFlight <= 1
  /\ (/\ mounted
      /\ ~isFullscreenMode
      /\ stopInFlight = 0
      /\ InFlight = {}
      /\ \E a \in Attempts : attempt[a].pc = "done") => IsIdle

\* C2: when the platform leaves full-screen while the session is Tracking,
\* that step stops the poller, sends a stop request and ends tracking.
C2_PlatformExitTearsDown ==
  [][(PlatformFullscreenExit /\ mounted /\ SessionState = "Tracking")
       => (/\ timers' = {}
           /\ gazeIntervalRef' = NoTimer
           /\ stopInFlight' = stopInFlight + 1
           /\ ~isEyeTrackingActive')]_vars

\* C3: once stopGazeDataPolling has returned (no timer handle is held), the
\* current sample stays empty, whatever request resolves later.
C3_NoSampleAfterStop ==
  gazeIntervalRef = NoTimer => gazeData = NoSample

\* C4: while the component is mounted, a poll timer is alive if and only if
\* the session state is Tracking.
C4_PollerIffTracking ==
  mounted => ((timers # {}) <=> (SessionState = "Tracking"))

\* C5: at most one gaze-data request is in flight at any time.
C5_SingleFlight ==
  Cardinality(pending) <= 1

\* C6: at most one poll timer is alive, and it is the one whose handle is
\* held (no orphaned timer).
C6_OneTimerNoOrphan ==
  /\ Cardinality(timers) <= 1
  /\ timers \subseteq {gazeIntervalRef}

\* C7: at most one call of handleEnterEyeTrackingMode is suspended on a
\* request at any time.
C7_OneLifecycleInFlight ==
  Cardinality(InFlight) <= 1

\* C8: an attempt whose connect request failed (success=false, or it threw)
\* has ended on the failure path; it issued no set-image and no start
\* request, started no poller and did not mark the session as tracking.
C8_ConnectFailureEndsAttempt ==
  \A a \in Attempts :
    attempt[a].connect \in {"fail", "throw"} =>
      /\ attempt[a].pc = "done"
      /\ attempt[a].alerted
      /\ <<a, "set-image">> \notin sent
      /\ <<a, "start">> \notin sent
      /\ ~attempt[a].polled
      /\ ~attempt[a].marked
      /\ a \notin timers

\* C8 witness: an attempt has ended after a success=false connect reply.
C8_Witness ==
  \E a \in Attempts : attempt[a].pc = "done" /\ attempt[a].connect = "fail"

\* C9: an attempt whose start request failed after a successful connect
\* (whatever set-image answered) has ended with the full-screen view shown
\* (if the component was still mounted), without marking the session as
\* tracking and without starting a poller.
C9_StartFailureDegrades ==
  \A a \in Attempts :
    attempt[a].start \in {"fail", "throw"} =>
      /\ attempt[a].pc = "done"
      /\ attempt[a].connect = "ok"
      /\ attempt[a].setImage \in {"ok", "fail"}
      /\ ~attempt[a].polled
      /\ ~attempt[a].marked
      /\ a \notin timers
      /\ (attempt[a].live => attempt[a].shown)

\* C9 witness: an attempt has ended after connect succeeded and start
\* replied success=false, and the full-screen view was shown.
C9_Witness ==
  \E a \in Attempts :
    /\ attempt[a].pc = "done"
    /\ attempt[a].connect = "ok"
    /\ attempt[a].start = "fail"
    /\ attempt[a].shown

\* C10: an attempt whose connect, set-image and start requests all succeeded
\* and whose full-screen request was granted has ended with the poller
\* started and its handle held and, if the component was still mounted, with
\* the session marked as tracking and the full-screen view shown.
C10_AllSucceedTracking ==
  \A a \in Attempts :
    (/\ attempt[a].pc = "done"
     /\ attempt[a].connect = "ok"
     /\ attempt[a].setImage = "ok"
     /\ attempt[a].start = "ok"
     /\ attempt[a].fullscreen = "granted") =>
      /\ attempt[a].polled
      /\ (attempt[a].live => attempt[a].marked /\ attempt[a].shown)

\* C10 witness: such an attempt has ended on a mounted component, and the
\* state is Tracking with its timer alive and the document in full-screen.
C10_Witness ==
  \E a \in Attempts :
    /\ attempt[a].pc = "done"
    /\ attempt[a].connect = "ok"
    /\ attempt[a].setImage = "ok"
    /\ attempt[a].start = "ok"
    /\ attempt[a].fullscreen = "granted"
    /\ attempt[a].live
    /\ SessionState = "Tracking"
    /\ gazeIntervalRef = a
    /\ a \in timers
    /\ fullscreenElement

\* The attempts that have ended.
Ended == {a \in Attempts : attempt[a].pc = "done"}

\* C11 (as claimed): an attempt whose connect failed has shown an alert and
\* has ended without the full-screen view being entered.
C11_ConnectFailureNoFullscreen ==
  \A a \in Ended :
    (attempt[a].connect \in {"fail", "throw"} /\ attempt[a].live) =>
      (attempt[a].alerted /\ ~attempt[a].shown)

\* C11 (amended): an attempt whose connect failed has shown an alert, has
\* not asked the browser for full-screen and has not marked the session as
\* tracking, and - the component being mounted - it has ended with the
\* component's full-screen view entered (isFullscreenMode true).
C11_ConnectFailureAlertsAndFallsBack ==
  \A a \in Ended :
    attempt[a].connect \in {"fail", "throw"} =>
      /\ attempt[a].alerted
      /\ attempt[a].fullscreen = "none"
      /\ ~attempt[a].marked
      /\ (attempt[a].live => attempt[a].shown)

\* C11 witness: connect replied success=false on a mounted component; the
\* alert was shown and the full-screen view entered without tracking.
C11_Witness ==
  \E a \in Ended :
    /\ attempt[a].connect = "fail"
    /\ attempt[a].live
    /\ attempt[a].alerted
    /\ attempt[a].shown
    /\ nAttempts = 1
    /\ SessionState = "Failed"

\* C12: every attempt that has ended on a mounted component, whichever step
\* failed and however, has ended with isFullscreenMode true.
C12_EveryAttemptEndsFullscreen ==
  \A a \in Ended : attempt[a].live => attempt[a].shown

\* C12 witness: an attempt has ended with the full-screen view shown after
\* its set-image request threw.
C12_Witness ==
  \E a \in Ended :
    /\ attempt[a].setImage = "throw"
    /\ attempt[a].live
    /\ attempt[a].shown
    /\ isFullscreenMode

\* C13 (as claimed): an alert is shown only by an attempt whose connect
\* failed.
C13_OnlyConnectFailureAlerts ==
  \A a \in Ended :
    attempt[a].alerted => attempt[a].connect \in {"fail", "throw"}

\* C13 (amended): an attempt shows an alert exactly when it leaves the try
\* block by a throw - connect or start replied success=false, a request
\* threw, or the full-screen request was rejected; a success=false reply
\* of set-image alone shows none.
C13_AlertIffThrown ==
  \A a \in Ended :
    attempt[a].alerted <=>
      \/ attempt[a].connect \in {"fail", "throw"}
      \/ attempt[a].setImage = "throw"
      \/ attempt[a].start \in {"fail", "throw"}
      \/ attempt[a].fullscreen = "rejected"

\* C13 witness: an attempt has ended with an alert after connect succeeded
\* and start replied success=false.
C13_Witness ==
  \E a \in Ended :
    /\ attempt[a].connect = "ok"
    /\ attempt[a].start = "fail"
    /\ attempt[a].alerted

\* C14: after a successful connect the start request is issued whatever
\* became of the set-image step (success, success=false, or a throw).
C14_StartWhateverSetImage ==
  \A a \in Attempts :
    (attempt[a].connect = "ok" /\ attempt[a].setImage # "none") =>
      <<a, "start">> \in sent

\* The reply recorded for the request of kind k of attempt a.
ReplyOf(a, k) ==
  CASE k = "connect"   -> attempt[a].connect
    [] k = "set-image" -> attempt[a].setImage
    [] k = "start"     -> attempt[a].start

\* The lifecycle requests of attempt a that are issued and not yet answered.
Awaiting(a) ==
  {k \in {"connect", "set-image", "start"} :
     <<a, k>> \in sent /\ ReplyOf(a, k) = "none"}

\* C15: within one attempt at most one lifecycle request is unanswered;
\* set-image is issued only after connect answered success, start only
\* after set-image answered (with success or success=false).
C15_LifecycleSequential ==
  \A a \in Attempts :
    /\ Cardinality(Awaiting(a)) <= 1
    /\ <<a, "set-image">> \in sent =>
         (<<a, "connect">> \in sent /\ attempt[a].connect = "ok")
    /\ <<a, "start">> \in sent =>
         (<<a, "set-image">> \in sent /\ attempt[a].setImage \in {"ok", "fail"})

\* C15 witness: an attempt has issued all three requests and start has
\* answered.
C15_Witness ==
  \E a \in Attempts :
    /\ {<<a, "connect">>, <<a, "set-image">>, <<a, "start">>} \subseteq sent
    /\ attempt[a].start # "none"

\* C16: a handleExitFullscreen call stops the poller whose handle is held,
\* drops the sample and marks tracking inactive before it sends stop; and
\* when its stop request settles - success, success=false or a throw - it
\* returns the view to normal.
C16_StopFailureNeverBlocks ==
  [][/\ (EscapeKey /\ isFullscreenMode) =>
          /\ gazeIntervalRef' = NoTimer
          /\ gazeIntervalRef \notin timers'
          /\ gazeData' = NoSample
          /\ ~isEyeTrackingActive'
          /\ stopInFlight' = stopInFlight + 1
     /\ \A r \in HttpReplies :
          (StopReply(r) /\ mounted) =>
             (~isFullscreenMode' /\ stopInFlight' = stopInFlight - 1)]_vars

\* C16 witness: the only attempt made was tracking, Escape was pressed and
\* the stop request has settled without stopping the device (it failed);
\* the view is normal, tracking is inactive and no timer is alive.
C16_Witness ==
  /\ mounted
  /\ nAttempts = 1
  /\ attempt[1].marked
  /\ deviceTracking
  /\ stopInFlight = 0
  /\ IsIdle

\* A session is active in the component: tracking is marked active and a
\* poll timer is alive.
SessionActive == isEyeTrackingActive /\ timers # {}

\* C17: the displayed page never changes while a session is active (paging
\* comes only after teardown).
C17_NoPagingWhileActive ==
  [][(currentPage' # currentPage) => ~SessionActive]_vars

\* C18: no new attempt is begun (no connect request issued) while a session
\* is active in the component and started on the device.
C18_NoEnterWhileActive ==
  [][EnterEyeTrackingMode => ~(SessionActive /\ deviceTracking)]_vars

\* C19: a poll tick whose request fails (success=false or no position, or a
\* throw) leaves the current sample, the timers and the held handle as they
\* were.
C19_FailedTickKeepsPolling ==
  [][\A k \in Ticks, r \in {"fail", "throw"} :
       GazeReply(k, r) => UNCHANGED <<gazeData, timers, gazeIntervalRef>>]_vars

\* C19 witness: the only poller ever started is still running, its first
\* tick has settled and no sample is shown - so that tick failed (nothing
\* else clears the sample while the handle is held) - and a further tick
\* can fire.
C19_Witness ==
  /\ mounted
  /\ nAttempts = 1
  /\ gazeIntervalRef = 1
  /\ 1 \in timers
  /\ tickCount = 1
  /\ pending = {}
  /\ gazeData = NoSample
  /\ ENABLED Tick(1)

\* C20: the current sample never goes back in tick order: a response of an
\* earlier tick is not applied over the sample of a later tick.
C20_SamplesInTickOrder ==
  [][(gazeData # NoSample /\ gazeData' # NoSample) => gazeData' >= gazeData]_vars

\* ------------------------------------------------- what must happen

\* What the browser guarantees to do once it can: an interval timer that is
\* alive fires its callback, and a document.exitFullscreen() that was
\* called completes.  Nothing makes the server answer a fetch and nothing
\* makes the user act, so no reply and no user action is fair.
Fairness ==
  /\ \A t \in Attempts : WF_vars(Tick(t))
  /\ WF_vars(ExitFullscreenDone)

LiveSpec == Spec /\ Fairness

\* C21: a call of handleEnterEyeTrackingMode that waits for the answer to
\* its connect or its start request eventually stops waiting for it (it
\* goes on or fails), even if the device never answers.
C21_UnansweredRequestTimesOut ==
  \A a \in Attempts : \A k \in {"connect", "start"} :
    (attempt[a].pc = k) ~> (attempt[a].pc # k)

\* The gaze indicator is on screen: the full-screen branch of render puts
\* it there when isEyeTrackingActive && gazeData.
MarkerRendered ==
  /\ mounted
  /\ isFullscreenMode
  /\ isEyeTrackingActive
  /\ gazeData # NoSample

\* A call of handleEnterEyeTrackingMode ends in this step through its catch
\* block: the full-screen view it leaves behind is the degraded one.
EndsDegraded ==
  \E a \in Attempts :
    attempt[a].pc # "done" /\ attempt'[a].pc = "done" /\ attempt'[a].alerted

\* C22: the gaze marker is on screen only in state Tracking (not while a
\* stop request is in flight, not after teardown), and the full-screen view
\* an attempt enters by its failure path shows no marker.
C22_MarkerOnlyWhileTracking ==
  [][/\ MarkerRendered' => SessionState' = "Tracking"
     /\ EndsDegraded => ~MarkerRendered']_vars

\* C23: while the component is mounted, tracking marked active implies the
\* full-screen view.
C23_TrackingImpliesFullscreen ==
  mounted => (isEyeTrackingActive => isFullscreenMode)

\* The presentation ends in this step: the full-screen view is left, or the
\* component unmounts.
PresentationEnds ==
  \/ isFullscreenMode /\ ~isFullscreenMode'
  \/ mounted /\ ~mounted'

\* C24: the presentation never ends on a session that is started on the
\* device unless a stop request goes with it - one already in flight (and
\* perhaps settling in this step) or one issued by this step - and a start
\* request that succeeds after the component unmounted has a stop request
\* issued for it.
C24_NoDanglingSession ==
  [][/\ (PresentationEnds /\ deviceTracking') =>
          (stopInFlight > 0 \/ stopInFlight' > stopInFlight)
     /\ (~mounted /\ ~deviceTracking /\ deviceTracking') =>
          stopInFlight' > stopInFlight]_vars

\* The teardown has completed: the component is mounted in the normal
\* view, tracking is marked inactive and no handler is suspended.
TornDown ==
  /\ mounted
  /\ ~isFullscreenMode
  /\ ~isEyeTrackingActive
  /\ stopInFlight = 0
  /\ InFlight = {}

\* C25: after the component unmounted, and after a teardown completed, no
\* interval timer made by the component is alive.
C25_NoLeakedPoller ==
  (~mounted \/ TornDown) => timers = {}

\* C26: a step out of Tracking goes to Stopping, never straight to Idle or
\* to any other state, and it enters Stopping with the poller stopped, the
\* sample cleared and the stop request issued; the normal view is back
\* only later, when that request settles.
C26_TrackingLeavesThroughStopping ==
  [][SessionState = "Tracking" =>
       /\ SessionState' \in {"Tracking", "Stopping"}
       /\ SessionState' = "Stopping" =>
            /\ gazeIntervalRef' = NoTimer
            /\ gazeData' = NoSample
            /\ ~isEyeTrackingActive'
            /\ isFullscreenMode']_vars

\* C27: an Escape key press in state Failed, with no session started on
\* the device, issues no device request: no stop request and no lifecycle
\* request is sent.
C27_DismissFailedSendsNothing ==
  [][(EscapeKey /\ SessionState = "Failed" /\ ~deviceTracking) =>
       (stopInFlight' = stopInFlight /\ sent' = sent)]_vars

\* C28: while the full-screen view is shown with tracking marked active,
\* the file every attempt that marked it sent in its set-image request is
\* the file of the page on screen.
C28_ImageContextIsShownPage ==
  (mounted /\ SessionState = "Tracking") =>
    \A a \in Ended :
      attempt[a].marked => attempt[a].image = ImageFile(currentPage)

\* C29: an attempt whose full-screen request was rejected (its start had
\* succeeded) ends through the catch block: alert shown, no poller started,
\* tracking not marked active, the full-screen view entered if the
\* component is mounted; and an Escape key press in the full-screen view
\* left by such an attempt sends a stop request.
C29_RejectedFullscreenDegradesAndStops ==
  [][/\ \A a \in Attempts :
          (attempt'[a].pc = "done" /\ attempt'[a].fullscreen = "rejected") =>
             /\ attempt'[a].start = "ok"
             /\ attempt'[a].alerted
             /\ ~attempt'[a].polled
             /\ ~attempt'[a].marked
             /\ a \notin timers'
             /\ (attempt'[a].live => attempt'[a].shown)
     /\ (/\ EscapeKey
         /\ isFullscreenMode
         /\ \E a \in Ended : attempt[a].fullscreen = "rejected") =>
          stopInFlight' = stopInFlight + 1]_vars

\* C29 witness: the only attempt made was started on the device and had its
\* full-screen request rejected; the degraded view was entered, Escape was
\* pressed and the stop request is in flight.
C29_Witness ==
  /\ mounted
  /\ nAttempts = 1
  /\ attempt[1].pc = "done"
  /\ attempt[1].start = "ok"
  /\ attempt[1].fullscreen = "rejected"
  /\ attempt[1].shown
  /\ ~isEyeTrackingActive
  /\ timers = {}
  /\ deviceTracking
  /\ stopInFlight = 1

\* The awaited call of the suspended attempt a is answered in this step.
Answered(a) ==
  CASE attempt[a].pc = "connect"  -> attempt'[a].connect # "none"
    [] attempt[a].pc = "setImage" -> attempt'[a].setImage # "none"
    [] attempt[a].pc = "start"    -> attempt'[a].start # "none"
    [] attempt[a].pc = "reqFS"    -> attempt'[a].fullscreen # "none"

\* C30: an Escape key press outside the full-screen view changes nothing
\* and sends nothing; and a suspended attempt is moved on only by the
\* answer to the call it awaits - no step cancels it.
C30_EscapeOutsideFullscreenIsNoOp ==
  [][/\ (EscapeKey /\ ~isFullscreenMode) => UNCHANGED vars
     /\ \A a \in InFlight : attempt'[a] # attempt[a] => Answered(a)]_vars

\* C30 witness: the normal view with an attempt suspended on its start
\* request and Escape pressable; nothing but that attempt has happened.
C30_Witness ==
  /\ mounted
  /\ ~isFullscreenMode
  /\ nAttempts = 1
  /\ attempt[1].pc = "start"
  /\ stopInFlight = 0
  /\ sent = {<<1, "connect">>, <<1, "set-image">>, <<1, "start">>}
  /\ ENABLED EscapeKey

====
